---- MODULE Spec2Model ----
(***************************************************************************)
(* State-machine model of the Ya Pas Courant backend (src/server.js): the  *)
(* startup sequence, the three MongoDB collections (scores, votes,         *)
(* comments) and one action per route handler.                             *)
(*                                                                         *)
(* A JavaScript string is a tuple of one-character strings, so that $trim  *)
(* and $concat are computed, not assumed.  The variable resp holds the     *)
(* HTTP response sent by the step just taken (NoResp when the step sent    *)
(* none).  MongoDB leaves the order of documents that compare equal under  *)
(* a $sort, and the order of the groups a $group emits, unspecified: every *)
(* aggregation is therefore the SET of results the server may return.      *)
(***************************************************************************)
EXTENDS Integers, Sequences, FiniteSets, Bags, TLC

VARIABLES pc, db, listening, now, scores, votes, comments, inflight, resp

vars == <<pc, db, listening, now, scores, votes, comments, inflight, resp>>

(* ------------------------------ bounds -------------------------------- *)

\* documents stored in the three collections together, pending inserts included
MaxDocs == 2
\* documents of the scores collection when the aggregations are checked alone
MaxRecords == 2
\* the clock (new Date()) takes the values 0..MaxClock
MaxClock == 1
\* POST /api/votes requests that can be between their findOne and their insertOne
MaxInflight == 2

(* ------------------------------ strings ------------------------------- *)

EmptyStr == <<>>
delestage == <<"d", "e", "l", "e", "s", "t", "a", "g", "e">>
panne == <<"p", "a", "n", "n", "e">>
detective == <<"d", "e", "t", "e", "c", "t", "i", "v", "e">>
autre == <<"a", "u", "t", "r", "e">>

\* the values requests draw their fields from
\* (name, location) of the players: the first two differ by a leading blank
\* only, the last two are different players whose names and locations
\* contain the separator "-"
Players ==
    {<<<<"a">>, <<"c">>>>, <<<<" ", "a">>, <<"c">>>>,
     <<<<"a">>, <<"b", "-", "c">>>>, <<<<"a", "-", "b">>, <<"c">>>>}
ScoreGames == {delestage, panne}
ScoreVals == {10, 20}
VoteGames == {delestage, panne, autre}
ClientIps == {<<"x">>, <<"y">>}
CommentTexts == {<<"o", "k">>}
ScoreFields == {"name", "location", "game", "score"}
CommentFields == {"name", "comment"}

IsWhitespace(c) == c = " "

RECURSIVE TrimLeft(_)
TrimLeft(s) ==
    IF s # <<>> /\ IsWhitespace(Head(s)) THEN TrimLeft(Tail(s)) ELSE s

RECURSIVE TrimRight(_)
TrimRight(s) ==
    IF s # <<>> /\ IsWhitespace(s[Len(s)])
    THEN TrimRight(SubSeq(s, 1, Len(s) - 1))
    ELSE s

\* { $trim: { input: s } }
Trim(s) == TrimRight(TrimLeft(s))

\* { $concat: [ a, "-", b ] }
Concat3(x, sep, y) == x \o sep \o y

\* { $concat: [ a, "-", b, "-", c ] }
Concat5(x, sep1, y, sep2, z) == x \o sep1 \o y \o sep2 \o z

Dash == <<"-">>

(* --------------------------- driver calls ----------------------------- *)

\* (mutant) a replaceOne with upsert: the newest document is overwritten
InsertOneReplacing(coll, doc) ==
    IF coll = <<>> THEN <<doc>> ELSE [coll EXCEPT ![Len(coll)] = doc]

\* collection.insertOne(doc): the collection gains doc, nothing else changes
InsertOne(coll, doc) == Append(coll, doc)

\* collection.deleteMany({})
DeleteMany(coll) == <<>>

\* the orders in which the elements of S can be listed
RECURSIVE Orderings(_)
Orderings(S) ==
    IF S = {}
    THEN {<<>>}
    ELSE UNION {{<<x>> \o t : t \in Orderings(S \ {x})} : x \in S}

\* the orders of the positions S in which the keys do not increase: what a
\* descending sort on that key can return (ties come out in any order)
RECURSIVE DescOrders(_, _)
DescOrders(keys, S) ==
    IF S = {}
    THEN {<<>>}
    ELSE UNION {{<<i>> \o t : t \in DescOrders(keys, S \ {i})} :
                   i \in {m \in S : \A j \in S : keys[m] >= keys[j]}}

Reorder(s, p) == [i \in 1..Len(s) |-> s[p[i]]]

(* ----------------------------- responses ------------------------------ *)

NoResp == [op |-> "none", status |-> 0, req |-> <<>>, body |-> <<>>]

Response(op, status, req, body) ==
    [op |-> op, status |-> status, req |-> req, body |-> body]

NotConnected == "Database not connected"

\* if (!db) throw new Error('Database not connected'), caught: 500
DbGuardFails(op, req) == resp' = Response(op, 500, req, NotConnected)

TotalDocs ==
    Len(scores) + Len(votes) + Len(comments)
        + BagCardinality(inflight)

HasRoom == TotalDocs < MaxDocs

(* ------------------------------ startup ------------------------------- *)

Init ==
    /\ pc = "connectDB"
    /\ db = FALSE
    /\ listening = FALSE
    /\ now = 0
    /\ scores = <<>>
    /\ votes = <<>>
    /\ comments = <<>>
    /\ inflight = EmptyBag
    /\ resp = NoResp

\* connectDB: client.connect() resolves, db is set, startServer goes on
ConnectOk ==
    /\ pc = "connectDB"
    /\ db' = TRUE
    /\ pc' = "listen"
    /\ resp' = NoResp
    /\ UNCHANGED <<listening, now, scores, votes, comments, inflight>>

\* connectDB: client.connect() rejects, process.exit(1)
ConnectFail ==
    /\ pc = "connectDB"
    /\ pc' = "exited"
    /\ resp' = NoResp
    /\ UNCHANGED <<db, listening, now, scores, votes, comments, inflight>>

\* (mutant) connectDB() called without await: listen does not wait for it
CanListenNoAwait == pc \in {"connectDB", "listen"}

\* startServer reaches app.listen only after `await connectDB()`
CanListen == pc = "listen"

Listen ==
    /\ CanListen
    /\ listening' = TRUE
    /\ pc' = "running"
    /\ resp' = NoResp
    /\ UNCHANGED <<db, now, scores, votes, comments, inflight>>

\* server.on('error'): the port cannot be bound, process.exit(1)
ListenError ==
    /\ CanListen
    /\ pc' = "exited"
    /\ resp' = NoResp
    /\ UNCHANGED <<db, listening, now, scores, votes, comments, inflight>>

\* time passes between two evaluations of new Date()
Tick ==
    /\ pc = "running"
    /\ now < MaxClock
    /\ now' = now + 1
    /\ resp' = NoResp
    /\ UNCHANGED <<pc, db, listening, scores, votes, comments, inflight>>

(* ------------------------------- scores ------------------------------- *)

\* !v for a string taken from the body: undefined and "" are falsy
FalsyStr(body, f) == f \in body.missing \/ body[f] = EmptyStr

\* !v for a number taken from the body: undefined and 0 are falsy
FalsyNum(body, f) == f \in body.missing \/ body[f] = 0

ScoreBodyRejected(body) ==
    \/ FalsyStr(body, "name")
    \/ FalsyStr(body, "location")
    \/ FalsyStr(body, "game")
    \/ FalsyNum(body, "score")

ScoreDoc(body) ==
    [id |-> Len(scores) + 1, name |-> body.name, location |-> body.location,
     game |-> body.game, score |-> body.score, date |-> now]

\* POST /api/scores
PostScore(body) ==
    /\ listening
    /\ IF ~db
       THEN DbGuardFails("postScore", body) /\ UNCHANGED scores
       ELSE IF ScoreBodyRejected(body)
       THEN /\ resp' = Response("postScore", 400, body, "champs requis")
            /\ UNCHANGED scores
       ELSE /\ HasRoom
            /\ scores' = InsertOne(scores, ScoreDoc(body))
            /\ resp' = Response("postScore", 200, body, Len(scores) + 1)
    /\ UNCHANGED <<pc, db, listening, now, votes, comments, inflight>>

\* { $match: { game: g } }
MatchGame(docs, g) == SelectSeq(docs, LAMBDA d : d.game = g)

PlayerKey(d) == Concat3(Trim(d.name), Dash, Trim(d.location))

PlayerGameKey(d) ==
    Concat5(Trim(d.name), Dash, Trim(d.location), Dash, Trim(d.game))

\* the document d with the added field (playerKey or playerGameKey) set to k
WithKey(d, k) ==
    [id |-> d.id, name |-> d.name, location |-> d.location, game |-> d.game,
     score |-> d.score, date |-> d.date, key |-> k]

\* { $addFields: { playerKey: ... } }
AddPlayerKey(docs) == [i \in 1..Len(docs) |-> WithKey(docs[i], PlayerKey(docs[i]))]

\* { $addFields: { playerGameKey: ... } }
AddPlayerGameKey(docs) ==
    [i \in 1..Len(docs) |-> WithKey(docs[i], PlayerGameKey(docs[i]))]

\* (mutant) { $sort: { date: 1 } }: oldest first
SortByDateAsc(docs) ==
    {Reorder(docs, p) :
        p \in DescOrders([i \in DOMAIN docs |-> 0 - docs[i].date], DOMAIN docs)}

\* (mutant) { $sort: { score: 1 } }: lowest first
SortByScoreAsc(docs) ==
    {Reorder(docs, p) :
        p \in DescOrders([i \in DOMAIN docs |-> 0 - docs[i].score], DOMAIN docs)}

\* { $sort: { date: -1 } }: any order in which the dates do not increase
SortByDateDesc(docs) ==
    {Reorder(docs, p) :
        p \in DescOrders([i \in DOMAIN docs |-> docs[i].date], DOMAIN docs)}

\* { $sort: { score: -1 } }: any order in which the scores do not increase
SortByScoreDesc(docs) ==
    {Reorder(docs, p) :
        p \in DescOrders([i \in DOMAIN docs |-> docs[i].score], DOMAIN docs)}

\* the first document of docs whose key is k
FirstWithKey(docs, k) ==
    docs[CHOOSE i \in 1..Len(docs) :
            /\ docs[i].key = k
            /\ \A j \in 1..(i - 1) : docs[j].key # k]

\* { $group: { _id: "$key", doc: { $first: "$$ROOT" } } }: one output document
\* per key, holding the first input document of the group; the groups come
\* out in any order
GroupFirst(docs) ==
    {[i \in DOMAIN ks |-> [id |-> ks[i], doc |-> FirstWithKey(docs, ks[i])]] :
        ks \in Orderings({docs[i].key : i \in DOMAIN docs})}

\* { $replaceRoot: { newRoot: "$doc" } }
ReplaceRoot(groups) == [i \in 1..Len(groups) |-> groups[i].doc]

\* the stages after $addFields, shared by both leaderboards
DedupAndRank(docs) ==
    UNION {UNION {SortByScoreDesc(ReplaceRoot(grp)) : grp \in GroupFirst(srt)} :
              srt \in SortByDateDesc(docs)}

\* the aggregation of GET /api/scores/:game
ScoresByGame(coll, g) == DedupAndRank(AddPlayerKey(MatchGame(coll, g)))

\* the aggregation of GET /api/scores
ScoresAllGames(coll) == DedupAndRank(AddPlayerGameKey(coll))

\* GET /api/scores/:game
GetScoresByGame(g) ==
    /\ listening
    /\ IF ~db
       THEN DbGuardFails("getScoresByGame", g)
       ELSE \E rows \in ScoresByGame(scores, g) :
                resp' = Response("getScoresByGame", 200, g, rows)
    /\ UNCHANGED <<pc, db, listening, now, scores, votes, comments, inflight>>

\* GET /api/scores
GetScores ==
    /\ listening
    /\ IF ~db
       THEN DbGuardFails("getScores", <<>>)
       ELSE \E rows \in ScoresAllGames(scores) :
                resp' = Response("getScores", 200, <<>>, rows)
    /\ UNCHANGED <<pc, db, listening, now, scores, votes, comments, inflight>>

\* GET /debug/scores: find({}).sort({ date: -1 })
DebugScores ==
    /\ listening
    /\ IF ~db
       THEN DbGuardFails("debugScores", <<>>)
       ELSE \E rows \in SortByDateDesc(scores) :
                resp' = Response("debugScores", 200, <<>>, rows)
    /\ UNCHANGED <<pc, db, listening, now, scores, votes, comments, inflight>>

\* POST /debug/reset-scores
ResetScores ==
    /\ listening
    /\ IF ~db
       THEN DbGuardFails("resetScores", <<>>) /\ UNCHANGED scores
       ELSE /\ scores' = DeleteMany(scores)
            /\ resp' = Response("resetScores", 200, <<>>, "reset")
    /\ UNCHANGED <<pc, db, listening, now, votes, comments, inflight>>

(* ------------------------------- votes -------------------------------- *)

\* (mutant) the filter names a field no document has: findOne returns null
FindOneWrongField(coll, g, ip) == FALSE

\* findOne({ game, clientIp }) returns a document (truthy) or null
FindOne(coll, g, ip) ==
    \E i \in 1..Len(coll) : coll[i].game = g /\ coll[i].clientIp = ip

VoteDoc(coll, g, ip) ==
    [id |-> Len(coll) + 1, game |-> g, clientIp |-> ip, date |-> now]

\* (mutant) an insert that the database refuses when the pair is stored
VotesAfterInsertIfAbsent(coll, g, ip) ==
    IF \E i \in 1..Len(coll) : coll[i].game = g /\ coll[i].clientIp = ip
    THEN coll
    ELSE Append(coll, [id |-> Len(coll) + 1, game |-> g, clientIp |-> ip, date |-> now])

\* insertOne({ game, clientIp, date: new Date() }): no condition on what the
\* collection holds by now
VotesAfterInsert(coll, g, ip) == InsertOne(coll, VoteDoc(coll, g, ip))

\* a POST /api/votes request suspended at `await insertOne`
Suspended(g, ip) == [game |-> g, clientIp |-> ip]

\* POST /api/votes up to `await findOne`: answers 400 when a vote exists,
\* otherwise the request goes on to its insertOne with existingVote = null
VoteCheck(g, ip) ==
    /\ listening
    /\ IF ~db
       THEN DbGuardFails("postVote", <<g, ip>>) /\ UNCHANGED inflight
       ELSE IF FindOne(votes, g, ip)
       THEN /\ resp' = Response("postVote", 400, <<g, ip>>, "deja vote")
            /\ UNCHANGED inflight
       ELSE /\ HasRoom
            /\ BagCardinality(inflight) < MaxInflight
            /\ inflight' = inflight (+) SetToBag({Suspended(g, ip)})
            /\ resp' = NoResp
    /\ UNCHANGED <<pc, db, listening, now, scores, votes, comments>>

\* POST /api/votes from `await insertOne` on
VoteInsert(r) ==
    /\ BagIn(r, inflight)
    /\ votes' = VotesAfterInsert(votes, r.game, r.clientIp)
    /\ resp' = Response("postVote", 200, <<r.game, r.clientIp>>, Len(votes'))
    /\ inflight' = inflight (-) SetToBag({r})
    /\ UNCHANGED <<pc, db, listening, now, scores, comments>>

\* POST /api/votes handled with no other request in between
PostVote(g, ip) ==
    /\ listening
    /\ inflight = EmptyBag
    /\ IF ~db
       THEN DbGuardFails("postVote", <<g, ip>>) /\ UNCHANGED votes
       ELSE IF FindOne(votes, g, ip)
       THEN /\ resp' = Response("postVote", 400, <<g, ip>>, "deja vote")
            /\ UNCHANGED votes
       ELSE /\ HasRoom
            /\ votes' = VotesAfterInsert(votes, g, ip)
            /\ resp' = Response("postVote", 200, <<g, ip>>, Len(votes'))
    /\ UNCHANGED <<pc, db, listening, now, scores, comments, inflight>>

\* { $group: { _id: '$game', count: { $sum: 1 } } }
GroupCountByGame(coll) ==
    {[id |-> g, count |-> Cardinality({i \in 1..Len(coll) : coll[i].game = g})] :
        g \in {coll[i].game : i \in 1..Len(coll)}}

KnownGames == {delestage, panne, detective}

\* voteCounts = { delestage: 0, panne: 0, detective: 0 };
\* votes.forEach(vote => { voteCounts[vote._id] = vote.count })
VoteCounts(groups) ==
    [k \in KnownGames \cup {x.id : x \in groups} |->
        IF \E x \in groups : x.id = k
        THEN (CHOOSE x \in groups : x.id = k).count
        ELSE 0]

\* GET /api/votes
GetVotes ==
    /\ listening
    /\ IF ~db
       THEN DbGuardFails("getVotes", <<>>)
       ELSE resp' = Response("getVotes", 200, <<>>,
                             VoteCounts(GroupCountByGame(votes)))
    /\ UNCHANGED <<pc, db, listening, now, scores, votes, comments, inflight>>

(* ------------------------------ comments ------------------------------ *)

CommentLimit == 50

CommentBodyRejected(body) == FalsyStr(body, "name") \/ FalsyStr(body, "comment")

CommentDoc(body) ==
    [id |-> Len(comments) + 1, name |-> body.name, comment |-> body.comment,
     timestamp |-> now]

\* POST /comments
PostComment(body) ==
    /\ listening
    /\ IF ~db
       THEN DbGuardFails("postComment", body) /\ UNCHANGED comments
       ELSE IF CommentBodyRejected(body)
       THEN /\ resp' = Response("postComment", 400, body, "requis")
            /\ UNCHANGED comments
       ELSE /\ HasRoom
            /\ comments' = InsertOne(comments, CommentDoc(body))
            /\ resp' = Response("postComment", 201, body, Len(comments) + 1)
    /\ UNCHANGED <<pc, db, listening, now, scores, votes, inflight>>

\* .sort({ timestamp: -1 })
SortByTimestampDesc(docs) ==
    {Reorder(docs, p) :
        p \in DescOrders([i \in DOMAIN docs |-> docs[i].timestamp], DOMAIN docs)}

\* .limit(n)
Limit(docs, n) == SubSeq(docs, 1, IF Len(docs) < n THEN Len(docs) ELSE n)

\* GET /comments
GetComments ==
    /\ listening
    /\ IF ~db
       THEN DbGuardFails("getComments", <<>>)
       ELSE \E rows \in SortByTimestampDesc(comments) :
                resp' = Response("getComments", 200, <<>>, Limit(rows, CommentLimit))
    /\ UNCHANGED <<pc, db, listening, now, scores, votes, comments, inflight>>

\* GET /api/health
Health ==
    /\ listening
    /\ resp' = Response("health", 200, <<>>,
                        IF db THEN "connected" ELSE "disconnected")
    /\ UNCHANGED <<pc, db, listening, now, scores, votes, comments, inflight>>

(* --------------------------- specifications --------------------------- *)

\* a body of POST /api/scores with its four fields present
CompleteScoreBody(v) ==
    [name |-> <<"a">>, location |-> <<"c">>, game |-> delestage, score |-> v,
     missing |-> {}]

\* the request bodies of POST /api/scores: complete ones (the score 0 among
\* them) and ones with a field absent
ScoreBodies ==
    {CompleteScoreBody(v) : v \in ScoreVals \cup {0}}
        \cup {[CompleteScoreBody(10) EXCEPT !.missing = {f}] : f \in ScoreFields}

CompleteCommentBody(t) == [name |-> <<"a">>, comment |-> t, missing |-> {}]

CommentBodies ==
    {CompleteCommentBody(t) : t \in CommentTexts \cup {EmptyStr}}
        \cup {[CompleteCommentBody(<<"o", "k">>) EXCEPT !.missing = {f}] :
                 f \in CommentFields}

Startup == ConnectOk \/ ConnectFail \/ Listen \/ ListenError

Reads ==
    \/ \E g \in ScoreGames : GetScoresByGame(g)
    \/ GetScores
    \/ DebugScores
    \/ GetVotes
    \/ GetComments
    \/ Health

Writes ==
    \/ \E body \in ScoreBodies : PostScore(body)
    \/ ResetScores
    \/ \E body \in CommentBodies : PostComment(body)

\* the server, requests interleaved at every await
Next ==
    \/ Startup
    \/ Tick
    \/ Reads
    \/ Writes
    \/ \E g \in VoteGames, ip \in ClientIps : VoteCheck(g, ip)
    \/ \E r \in BagToSet(inflight) : VoteInsert(r)

Spec == Init /\ [][Next]_vars

\* the server, each request handled to its end before the next one starts
NextSeq ==
    \/ Startup
    \/ Tick
    \/ Reads
    \/ Writes
    \/ \E g \in VoteGames, ip \in ClientIps : PostVote(g, ip)

SpecSeq == Init /\ [][NextSeq]_vars

\* the documents POST /api/scores can have stored
StoredFields == Players \X ScoreGames \X ScoreVals \X (0..MaxClock)

StoredDoc(i, f) ==
    [id |-> i, name |-> f[1][1], location |-> f[1][2], game |-> f[2],
     score |-> f[3], date |-> f[4]]

\* the running server over the scores collection left by at most MaxRecords
\* submissions (fs gives their fields, in the order of their dates)
InitAgg ==
    /\ pc = "running"
    /\ db = TRUE
    /\ listening = TRUE
    /\ \E n \in 0..MaxRecords : \E fs \in [1..n -> StoredFields] :
          /\ \A i \in 1..n, j \in 1..n : i < j => fs[i][4] <= fs[j][4]
          /\ scores = [i \in 1..n |-> StoredDoc(i, fs[i])]
    /\ now = IF scores = <<>> THEN 0 ELSE scores[Len(scores)].date
    /\ votes = <<>>
    /\ comments = <<>>
    /\ inflight = EmptyBag
    /\ resp = NoResp

\* one leaderboard request, then the same request again
NextAgg ==
    \/ \E g \in ScoreGames :
          /\ resp.op = "none" \/ (resp.op = "getScoresByGame" /\ resp.req = g)
          /\ GetScoresByGame(g)
    \/ /\ resp.op \in {"none", "getScores"}
       /\ GetScores

\* the leaderboard aggregations over every collection the submissions can build
SpecAgg == InitAgg /\ [][NextAgg]_vars

(* ------------------------------- claims ------------------------------- *)

\* the records of game g in the scores collection
GameRecords(g) == {scores[i] : i \in {j \in DOMAIN scores : scores[j].game = g}}

\* trim(name) + "-" + trim(location)
GroupingKey(r) == Trim(r.name) \o <<"-">> \o Trim(r.location)

\* row is the stored record r, as it was submitted
IsRecord(row, r) ==
    /\ row.id = r.id
    /\ row.name = r.name
    /\ row.location = r.location
    /\ row.game = r.game
    /\ row.score = r.score
    /\ row.date = r.date

\* C1: GET /api/scores/:game returns exactly one row per grouping key
\* trim(name)+"-"+trim(location) among the records of the game, and that row
\* is a stored record of the game whose date is the maximum among the records
\* sharing its key, whatever its score.
C1_LatestWins ==
    (resp.op = "getScoresByGame" /\ resp.status = 200) =>
        LET recs == GameRecords(resp.req)
            rows == resp.body
        IN  /\ \A k \in {GroupingKey(r) : r \in recs} :
                   Cardinality({i \in DOMAIN rows : GroupingKey(rows[i]) = k}) = 1
            /\ \A i \in DOMAIN rows : \E r \in recs :
                   /\ IsRecord(rows[i], r)
                   /\ \A q \in recs : GroupingKey(q) = GroupingKey(r) => q.date <= r.date

\* C1 witness: a player submitted a higher score and later a lower one for
\* the game, and the leaderboard is the single row of the later, lower one.
C1_Witness ==
    /\ resp.op = "getScoresByGame"
    /\ Len(resp.body) = 1
    /\ \E i, j \in DOMAIN scores :
          /\ scores[i].game = resp.req /\ scores[j].game = resp.req
          /\ GroupingKey(scores[i]) = GroupingKey(scores[j])
          /\ scores[i].date < scores[j].date
          /\ scores[i].score > scores[j].score
          /\ resp.body[1].id = j
          /\ resp.body[1].score = scores[j].score

\* the player of a record: (trim(name), trim(location))
PlayerTuple(r) == <<Trim(r.name), Trim(r.location)>>

\* C2: the leaderboard of a game has exactly one row per distinct player
\* tuple (trim(name), trim(location)) among the records of the game, and the
\* all-games leaderboard one row per distinct (player, trim(game)), also for
\* names and locations that contain "-".
C2_OneRowPerPlayerTuple ==
    /\ (resp.op = "getScoresByGame" /\ resp.status = 200) =>
           Len(resp.body) =
               Cardinality({PlayerTuple(r) : r \in GameRecords(resp.req)})
    /\ (resp.op = "getScores" /\ resp.status = 200) =>
           Len(resp.body) =
               Cardinality({<<PlayerTuple(scores[i]), Trim(scores[i].game)>> :
                               i \in DOMAIN scores})

\* C3: the rows of both leaderboards are ordered by score descending, and an
\* empty collection yields no row.
C3_SortedByScoreDesc ==
    (resp.op \in {"getScoresByGame", "getScores"} /\ resp.status = 200) =>
        /\ \A i \in 1..(Len(resp.body) - 1) :
               resp.body[i].score >= resp.body[i + 1].score
        /\ scores = <<>> => resp.body = <<>>

\* C3 witness: the lower score was submitted first and is listed second.
C3_Witness ==
    /\ resp.op = "getScoresByGame"
    /\ Len(resp.body) = 2
    /\ resp.body[1].score = 20
    /\ resp.body[2].score = 10
    /\ resp.body[2].id < resp.body[1].id

\* a vote of client ip for game g is stored
HasVote(g, ip) ==
    \E i \in DOMAIN votes : votes[i].game = g /\ votes[i].clientIp = ip

\* what GET /api/votes would answer over the collection coll
Tally(coll) == VoteCounts(GroupCountByGame(coll))

\* C4: with requests handled one after another, a POST /api/votes for a
\* (game, client) pair that already has a vote is answered 400 and leaves the
\* votes collection and the tally as they were.
C4_DuplicateVoteRejected ==
    [][(resp'.op = "postVote" /\ HasVote(resp'.req[1], resp'.req[2])) =>
           /\ resp'.status = 400
           /\ votes' = votes
           /\ Tally(votes') = Tally(votes)]_vars

\* C4 witness: a second vote of the same client for the same game has just
\* been answered 400 and the pair still has one vote.
C4_Witness ==
    /\ resp.op = "postVote"
    /\ resp.status = 400
    /\ Cardinality({i \in DOMAIN votes :
                       votes[i].game = resp.req[1] /\ votes[i].clientIp = resp.req[2]}) = 1
    /\ Tally(votes)[resp.req[1]] = 1

\* C5: the insert of a POST /api/votes that passed its existence check is not
\* conditioned on the collection any more: when the request resumes it stores
\* its record and answers success, also when a record of the same (game,
\* client) pair was stored since the check.
C5_CheckThenInsertNotAtomic ==
    [][\A r \in BagToSet(inflight) :
           CopiesIn(r, inflight') < CopiesIn(r, inflight) =>
               /\ resp'.op = "postVote"
               /\ resp'.status = 200
               /\ Len(votes') = Len(votes) + 1
               /\ votes'[Len(votes')].game = r.game
               /\ votes'[Len(votes')].clientIp = r.clientIp]_vars

\* C5 witness: two requests of one client for one game both passed the check
\* and both inserted: the collection holds two records of the pair.
C5_Witness ==
    /\ resp.op = "postVote"
    /\ resp.status = 200
    /\ inflight = EmptyBag
    /\ \E i, j \in DOMAIN votes :
          /\ i < j
          /\ votes[i].game = votes[j].game
          /\ votes[i].clientIp = votes[j].clientIp
          /\ votes[j].game = resp.req[1]
          /\ votes[j].clientIp = resp.req[2]

\* C6: GET /api/votes answers a tally with exactly the keys delestage, panne
\* and detective, each mapped to the number of votes stored for that game.
C6_FixedShapeTally ==
    (resp.op = "getVotes" /\ resp.status = 200) =>
        /\ DOMAIN resp.body = {delestage, panne, detective}
        /\ \A g \in {delestage, panne, detective} :
               resp.body[g] = Cardinality({i \in DOMAIN votes : votes[i].game = g})

\* C7: POST /api/scores inserts the submitted record when the four fields are
\* present in the body, whatever their values, and answers 400 when one is
\* absent.
C7_PresentFieldsInserted ==
    resp.op = "postScore" =>
        IF resp.req.missing = {}
        THEN /\ resp.status = 200
             /\ scores # <<>>
             /\ scores[Len(scores)].name = resp.req.name
             /\ scores[Len(scores)].location = resp.req.location
             /\ scores[Len(scores)].game = resp.req.game
             /\ scores[Len(scores)].score = resp.req.score
        ELSE resp.status = 400

\* C8: two invocations of the same leaderboard request with no write in
\* between return the same sequence of rows.
C8_SameRowsTwice ==
    [][(/\ resp.op \in {"getScoresByGame", "getScores"}
        /\ resp'.op = resp.op
        /\ resp'.req = resp.req
        /\ scores' = scores) => resp'.body = resp.body]_vars

IsPrefix(s, t) == Len(s) <= Len(t) /\ SubSeq(t, 1, Len(s)) = s

ReadOps ==
    {"getScoresByGame", "getScores", "debugScores", "getVotes", "getComments",
     "health"}

\* C9: every step keeps the stored score records as they are unless it is a
\* POST /debug/reset-scores, and keeps the stored vote records as they are;
\* a reset empties scores and leaves votes and comments unchanged; a GET
\* leaves the three collections unchanged.
C9_StoredRecordsPermanent ==
    [][/\ resp'.op # "resetScores" => IsPrefix(scores, scores')
       /\ IsPrefix(votes, votes')
       /\ resp'.op = "resetScores" =>
              scores' = <<>> /\ votes' = votes /\ comments' = comments
       /\ resp'.op \in ReadOps =>
              scores' = scores /\ votes' = votes /\ comments' = comments]_vars

\* C9 witness: a reset has just been answered, scores is empty, and the vote
\* and the comment stored before it are still there.
C9_Witness ==
    /\ resp.op = "resetScores"
    /\ resp.status = 200
    /\ scores = <<>>
    /\ votes # <<>>
    /\ comments # <<>>

\* C10: the server listens only with the database handle set, a process that
\* exited during startup never listened, and no request is answered 500
\* "Database not connected".
C10_ListenOnlyAfterConnect ==
    /\ listening => db
    /\ pc = "exited" => ~listening
    /\ ~(resp.status = 500 /\ resp.body = NotConnected)

\* C10 witness: the server listens and a handler has used the database.
C10_Witness ==
    /\ listening
    /\ db
    /\ resp.op = "postScore"
    /\ resp.status = 200
    /\ scores # <<>>

====
